---- MODULE Spec2Model ----
(***************************************************************************)
(* A model of nrk_download.py: the identifier resolver (get_program_id),   *)
(* the fetcher (get_req), the subtitle locator and converter               *)
(* (get_vtt_file_url, nrk_vtt_to_srt), file naming (create_filename_base)  *)
(* and the batch loop (main, download, save_stream, save_subtitles).       *)
(*                                                                         *)
(* Text is a sequence of one-character strings.  A Python value is a       *)
(* record with a field kind; a call's result is a record with a field      *)
(* kind that is "return" (with value) or "raise" (with exc).               *)
(***************************************************************************)
EXTENDS Integers, Sequences, FiniteSets, TLC

VARIABLES
    pc,             \* position of the running script
    programs,       \* main: the batch of references (argv PROGRAMS)
    i,              \* main: index of the reference being processed (1-based)
    program_id,     \* main / get_program_id: the resolver's result
    exc,            \* the exception that left the running function, or "none"
    reqs,           \* the get_req calls made for the current reference
    events,         \* printed reports and calls to the external collaborators
    fs,             \* the set of file paths that exist in the working directory
    written,        \* the file writes so far: the reference and the path
    response_data,  \* download: the metadata of the current reference
    filename_base,  \* save_stream: the base name of the output files
    passed_string,  \* get_program_id: its argument
    vtt,            \* nrk_vtt_to_srt: its argument
    srt,            \* nrk_vtt_to_srt: its result
    manifests,      \* get_vtt_file_url: the two manifests served
    vtt_url         \* get_vtt_file_url: its result

mainVars == <<programs, i, events, fs, written, response_data, filename_base>>

vars == <<pc, program_id, exc, reqs, mainVars, passed_string, vtt, srt,
          manifests, vtt_url>>

-----------------------------------------------------------------------------
(* Python values and call results *)

None == [kind |-> "None"]

Str(s) == [kind |-> "str", s |-> s]

Return(v) == [kind |-> "return", value |-> v]

Raise(e) == [kind |-> "raise", exc |-> e]

\* Python truthiness of a value: None and the empty string are falsy; a
\* requests.Response is truthy exactly when its status is below 400.
Truthy(v) ==
    CASE v.kind = "None" -> FALSE
      [] v.kind = "str" -> v.s # <<>>
      [] v.kind = "Response" -> v.ok
      [] OTHER -> TRUE

-----------------------------------------------------------------------------
(* Text helpers *)

Upper == {"A","B","C","D","E","F","G","H","I","J","K","L","M",
          "N","O","P","Q","R","S","T","U","V","W","X","Y","Z"}

Digit == {"0","1","2","3","4","5","6","7","8","9"}

\* the class [\da-f-] of the star-form pattern
StarTokenChar == Digit \cup {"a","b","c","d","e","f","-"}

Min(S) == CHOOSE x \in S : \A y \in S : x <= y

Max(S) == CHOOSE x \in S : \A y \in S : y <= x

\* s has the literal lit at position p
HasAt(s, p, lit) ==
    /\ p >= 1
    /\ p + Len(lit) - 1 <= Len(s)
    /\ SubSeq(s, p, p + Len(lit) - 1) = lit

\* every character of s[from..to] is in class, and the range is not empty
AllIn(s, from, to, class) ==
    /\ from <= to
    /\ from >= 1
    /\ to <= Len(s)
    /\ \A k \in from..to : s[k] \in class

\* `$` of Python's re (no MULTILINE) before position j: the end of the
\* string, or just before a newline that ends the string
AtDollar(s, j) ==
    \/ j = Len(s) + 1
    \/ j = Len(s) /\ s[j] = "\n"

\* the groups (^|/) and ($|/) around a token that occupies s[t..e]
SlashDelimited(s, t, e) ==
    /\ t = 1 \/ (t > 1 /\ s[t-1] = "/")
    /\ AtDollar(s, e + 1) \/ (e + 1 <= Len(s) /\ s[e+1] = "/")

RECURSIVE Join(_, _)
\* sep.join(parts)
Join(parts, sep) ==
    IF parts = <<>> THEN <<>>
    ELSE IF Len(parts) = 1 THEN parts[1]
    ELSE parts[1] \o sep \o Join(Tail(parts), sep)

-----------------------------------------------------------------------------
(* get_req *)

HTTPS == <<"h","t","t","p","s",":","/","/">>

HTTP == <<"h","t","t","p",":","/","/">>

\* requests.get raises MissingSchema for a URL without a scheme
HasScheme(url) == HasAt(url, 1, HTTPS) \/ HasAt(url, 1, HTTP)

\* get_req(url, headers) where the transport answers net: a record with
\* outcome "ok" (and a response resp) or "RequestException".  The result
\* carries the GETs issued and the errors printed.  In the MissingSchema
\* handler the argument `session` is an undefined name: evaluating the call's
\* arguments raises NameError before the retry is made.
get_req(url, net) ==
    IF ~HasScheme(url)
    THEN [kind |-> "raise", exc |-> "NameError", gets |-> <<url>>,
          errors |-> 0, url |-> url, first |-> "MissingSchema"]
    ELSE IF net.outcome = "RequestException"
    THEN [kind |-> "return", value |-> None, gets |-> <<url>>,
          errors |-> 1, url |-> url, first |-> "RequestException"]
    ELSE [kind |-> "return", value |-> net.resp, gets |-> <<url>>,
          errors |-> 0, url |-> url, first |-> "ok"]

Response(ok, body) == [kind |-> "Response", ok |-> ok, body |-> body]

NetFail == [outcome |-> "RequestException"]

NetOk(resp) == [outcome |-> "ok", resp |-> resp]

-----------------------------------------------------------------------------
(* get_program_id and its two remote lookups *)

TVAPI_BASE_URL ==
    HTTPS \o <<"t","v","a","p","i",".","n","r","k",".","n","o","/",
              "v","1","/","p","r","o","g","r","a","m","s","/">>

MIMIR_BASE_URL ==
    HTTPS \o <<"m","i","m","i","r",".","n","r","k",".","n","o","/",
              "p","l","u","g","i","n","/","1",".","0","/",
              "s","t","a","t","i","c","?","m","e","d","i","a","I","d","=">>

\* starts t of a token matched by "(^|/)([A-Z]{4}\d{8})($|/)"
DirectStarts(s) ==
    {t \in 1..Len(s) :
        /\ t + 11 <= Len(s)
        /\ AllIn(s, t, t + 3, Upper)
        /\ AllIn(s, t + 4, t + 11, Digit)
        /\ SlashDelimited(s, t, t + 11)}

\* re.search reports the leftmost match; group(2) is the token
DirectGroup2(s) == LET t == Min(DirectStarts(s)) IN SubSeq(s, t, t + 11)

\* ends e of the token of "(^|/)PS\*([\da-f-]+)($|/)" when "PS*" is at t
StarEnds(s, t) ==
    {e \in (t + 3)..Len(s) :
        /\ AllIn(s, t + 3, e, StarTokenChar)
        /\ SlashDelimited(s, t, e)}

StarStarts(s) ==
    {t \in 1..Len(s) : HasAt(s, t, <<"P","S","*">>) /\ StarEnds(s, t) # {}}

\* a variant of StarGroup2 whose group holds the "PS*" prefix too
StarGroup2WithPrefix(s) ==
    LET t == Min(StarStarts(s))
    IN  SubSeq(s, t, Max(StarEnds(s, t)))

\* group(2) of the star-form pattern is the token after "PS*": the prefix
\* is outside the group
StarGroup2(s) ==
    LET t == Min(StarStarts(s))
    IN  SubSeq(s, t + 3, Max(StarEnds(s, t)))

MEDIA_ID_EQ == <<"m","e","d","i","a","I","d","=">>

\* ends e of the digits of "(^|mediaId=)([0-9]+)($|&)" that start at t
MediaEnds(s, t) ==
    {e \in t..Len(s) :
        /\ AllIn(s, t, e, Digit)
        /\ AtDollar(s, e + 1) \/ (e + 1 <= Len(s) /\ s[e+1] = "&")}

MediaStarts(s) ==
    {t \in 1..Len(s) :
        /\ t = 1 \/ HasAt(s, t - 8, MEDIA_ID_EQ)
        /\ MediaEnds(s, t) # {}}

MediaGroup2(s) ==
    LET t == Min(MediaStarts(s))
    IN  SubSeq(s, t, Max(MediaEnds(s, t)))

\* get_program_id_from_media_id(media_id), the lookup endpoint answering net.
\* The page body is [script, activeMedia, psId]: script is "none" (no script
\* element), "badjson" or "json"; activeMedia is "absent", "null" or
\* "object"; psId is a value (None when the key is absent).
get_program_id_from_media_id(media_id, net) ==
    LET r == get_req(MIMIR_BASE_URL \o media_id, net)
    IN  IF r.kind = "raise" THEN [res |-> Raise(r.exc), req |-> <<r>>]
        ELSE IF ~Truthy(r.value) THEN [res |-> Return(None), req |-> <<r>>]
        ELSE LET page == r.value.body
             IN  [req |-> <<r>>,
                  res |->
                    IF page.script = "none" THEN Raise("AttributeError")
                    ELSE IF page.script = "badjson" THEN Raise("ValueError")
                    ELSE IF page.activeMedia = "absent" THEN Return(None)
                    ELSE IF page.activeMedia = "null" THEN Raise("AttributeError")
                    ELSE Return(page.psId)]

\* a or b, on Python values
PyOr(a, b) == IF Truthy(a) THEN a ELSE b

\* get_program_id_from_html(url), the page answering net.  The page body is
\* [section, figure]: each None or an element [kind |-> "Tag", ga, video]
\* with the values of data-ga-from-id and data-video-id (None when absent).
get_program_id_from_html(url, net) ==
    LET r == get_req(url, net)
    IN  IF r.kind = "raise" THEN [res |-> Raise(r.exc), req |-> <<r>>]
        ELSE IF ~Truthy(r.value) THEN [res |-> Return(None), req |-> <<r>>]
        ELSE LET page == r.value.body
                 id_element == PyOr(page.section, page.figure)
             IN  [req |-> <<r>>,
                  res |->
                    IF ~Truthy(id_element) THEN Return(None)
                    ELSE Return(PyOr(id_element.ga, id_element.video))]

\* the strategy get_program_id takes for passed_string
Strategy(s) ==
    IF DirectStarts(s) # {} THEN "direct"
    ELSE IF StarStarts(s) # {} THEN "star"
    ELSE IF MediaStarts(s) # {} THEN "media"
    ELSE "html"

\* a variant of get_program_id that falls back to the page scrape when the
\* media-ID lookup yields nothing
get_program_id_fallthrough(s, net) ==
    IF DirectStarts(s) # {}
    THEN [res |-> Return(Str(DirectGroup2(s))), req |-> <<>>]
    ELSE IF StarStarts(s) # {}
    THEN [res |-> Return(Str(StarGroup2(s))), req |-> <<>>]
    ELSE IF MediaStarts(s) # {}
    THEN LET m == get_program_id_from_media_id(MediaGroup2(s), net)
         IN  IF m.res.kind = "return" /\ ~Truthy(m.res.value)
             THEN LET h == get_program_id_from_html(s, NetFail)
                  IN  [res |-> h.res, req |-> m.req \o h.req]
             ELSE m
    ELSE get_program_id_from_html(s, net)

\* get_program_id(passed_string); net answers the one fetch it may make
get_program_id(s, net) ==
    IF DirectStarts(s) # {}
    THEN [res |-> Return(Str(DirectGroup2(s))), req |-> <<>>]
    ELSE IF StarStarts(s) # {}
    THEN [res |-> Return(Str(StarGroup2(s))), req |-> <<>>]
    ELSE IF MediaStarts(s) # {}
    THEN get_program_id_from_media_id(MediaGroup2(s), net)
    ELSE get_program_id_from_html(s, net)

-----------------------------------------------------------------------------
(* The resolver on its own: one call of get_program_id on a reference *)

MaxSegs == 2

SegId == <<"N","N","F","A","1","9","0","0","0","1","1","7">>

SegId2 == <<"K","O","I","D","2","0","0","0","1","2","3","4">>

SegShort == <<"N","F","A","1","9","0","0","0","1","1","7">>

SegStar == <<"P","S","*","1","a","-","f">>

SegStarBad == <<"P","S","*","1","g">>

SegNum == <<"1","2","3">>

SegQuery == <<"s","k","o","l","e","?","m","e","d","i","a","I","d","=","4","5">>

SegQueryAmp == <<"x","?","m","e","d","i","a","I","d","=","4","5","&","t">>

SegWord == <<"s","e","r","i","e">>

SegHost == <<"t","v",".","n","r","k",".","n","o">>

Segments == {SegId, SegShort, SegStar, SegStarBad, SegNum, SegQuery,
             SegQueryAmp, SegWord}

SegLists == UNION {[1..n -> Segments] : n \in 1..MaxSegs}

\* the references tried: an optional scheme, path segments, an optional
\* trailing slash or newline
References ==
    {pre \o Join(segs, <<"/">>) \o post :
        pre \in {<<>>, HTTPS}, segs \in SegLists,
        post \in {<<>>, <<"/">>, <<"\n">>}}

\* what the media-ID lookup endpoint may serve
MimirPages ==
    {[script |-> "none", activeMedia |-> "absent", psId |-> None],
     [script |-> "badjson", activeMedia |-> "absent", psId |-> None],
     [script |-> "json", activeMedia |-> "absent", psId |-> None],
     [script |-> "json", activeMedia |-> "null", psId |-> None],
     [script |-> "json", activeMedia |-> "object", psId |-> None],
     [script |-> "json", activeMedia |-> "object", psId |-> Str(<<>>)],
     [script |-> "json", activeMedia |-> "object", psId |-> Str(SegId2)]}

Tag(ga, video) == [kind |-> "Tag", ga |-> ga, video |-> video]

Tags ==
    {Tag(None, None), Tag(Str(SegId), None), Tag(Str(<<>>), Str(SegId2))}

\* what a scraped page may hold
HtmlPages == [section : Tags \cup {None}, figure : Tags \cup {None}]

NetsOver(pages) ==
    {NetFail} \cup {NetOk(Response(ok, b)) : ok \in BOOLEAN, b \in pages}

\* the answers to the fetch get_program_id makes for s
ResolveNets(s) ==
    IF Strategy(s) = "html" THEN NetsOver(HtmlPages) ELSE NetsOver(MimirPages)

IdleMain ==
    /\ programs = <<>>
    /\ i = 0
    /\ events = <<>>
    /\ fs = {}
    /\ written = <<>>
    /\ response_data = None
    /\ filename_base = <<>>

IdleResolver == passed_string = <<>> /\ program_id = None

IdleConverter == vtt = <<>> /\ srt = None

IdleLocator == manifests = <<>> /\ vtt_url = None

InitResolve ==
    /\ pc = "call"
    /\ passed_string \in References
    /\ program_id = None
    /\ exc = "none"
    /\ reqs = <<>>
    /\ IdleMain /\ IdleConverter /\ IdleLocator

Resolve ==
    /\ pc = "call"
    /\ \E net \in ResolveNets(passed_string) :
         LET r == get_program_id(passed_string, net)
         IN  /\ reqs' = r.req
             /\ IF r.res.kind = "return"
                THEN pc' = "returned" /\ program_id' = r.res.value /\ exc' = exc
                ELSE pc' = "raised" /\ exc' = r.res.exc /\ program_id' = program_id
    /\ UNCHANGED <<mainVars, passed_string, vtt, srt, manifests, vtt_url>>

NextResolve == Resolve

SpecResolve == InitResolve /\ [][NextResolve]_vars

\* a character-class token with "PS*" before it at t, ending at e, delimited
\* by the string's start or "/" and by the string's end or "/"
StarTokenAt(s, t, e) ==
    /\ HasAt(s, t, <<"P","S","*">>)
    /\ AllIn(s, t + 3, e, StarTokenChar)
    /\ t = 1 \/ s[t-1] = "/"
    /\ e = Len(s) \/ s[e+1] = "/"

\* s holds tok between "/" or the string's ends
OccursDelimited(s, tok) ==
    \E t \in 1..Len(s) :
        /\ HasAt(s, t, tok)
        /\ t = 1 \/ s[t-1] = "/"
        /\ LET e == t + Len(tok) - 1
           IN  e = Len(s) \/ s[e+1] = "/" \/ (e + 1 = Len(s) /\ s[e+1] = "\n")

IsDirectToken(tok) ==
    /\ Len(tok) = 12
    /\ \A k \in 1..4 : tok[k] \in Upper
    /\ \A k \in 5..12 : tok[k] \in Digit

\* C3: get_req never raises: every call returns a response or null; a first
\* GET that fails with a missing scheme is retried exactly once with https://
\* prepended; any other transport failure prints the error and gives null.
C3_NeverRaises ==
    \A k \in DOMAIN reqs :
        /\ reqs[k].kind = "return"
        /\ reqs[k].first = "MissingSchema" =>
              reqs[k].gets = <<reqs[k].url, HTTPS \o reqs[k].url>>
        /\ reqs[k].first = "RequestException" =>
              reqs[k].value = None /\ reqs[k].errors = 1

\* C4: the strategies apply in fixed priority, first match wins: a direct
\* match returns that token without a fetch; else a star-form match returns
\* without a fetch; else a media-ID match gives exactly the lookup's result
\* with one fetch, of the lookup endpoint, and no page scrape even when the
\* lookup yields nothing; the reference itself is fetched only when none of
\* the three patterns matched.
C4_Priority ==
    pc # "call" =>
      LET s == passed_string
          direct == DirectStarts(s) # {}
          star == StarStarts(s) # {}
          media == MediaStarts(s) # {}
      IN  /\ direct =>
               /\ pc = "returned" /\ reqs = <<>>
               /\ program_id.kind = "str"
               /\ IsDirectToken(program_id.s)
               /\ OccursDelimited(s, program_id.s)
          /\ ~direct /\ star =>
               /\ pc = "returned" /\ reqs = <<>>
               /\ program_id.kind = "str"
          /\ ~direct /\ ~star /\ media =>
               /\ Len(reqs) = 1
               /\ HasAt(reqs[1].url, 1, MIMIR_BASE_URL)
               /\ reqs[1].url # s
               /\ reqs[1].kind = "return" /\ ~Truthy(reqs[1].value) =>
                     pc = "returned" /\ program_id = None
               /\ reqs[1].kind = "return" /\ Truthy(reqs[1].value)
                    /\ reqs[1].value.body.script = "json"
                    /\ reqs[1].value.body.activeMedia = "object" =>
                     pc = "returned" /\ program_id = reqs[1].value.body.psId
          /\ (\E k \in DOMAIN reqs : reqs[k].url = s) =>
               ~direct /\ ~star /\ ~media

\* a media-ID reference whose lookup yielded nothing: one fetch, no scrape
C4_Witness ==
    /\ pc = "returned"
    /\ Strategy(passed_string) = "media"
    /\ program_id = None
    /\ Len(reqs) = 1

\* the tokens <<t, e>> of s: "PS*" at t, the token's last character at e
StarTokens(s) ==
    UNION {{<<t, e>> : e \in {k \in (t + 3)..Len(s) : StarTokenAt(s, t, k)}} :
             t \in {k \in 1..Len(s) : HasAt(s, k, <<"P","S","*">>)}}

CannotProduce(r, strategy) ==
    \/ r.kind = "raise"
    \/ r.kind = "return" /\ r.value = None
    \/ /\ r.kind = "return" /\ Truthy(r.value)
       /\ IF strategy = "media"
          THEN \/ r.value.body.script = "none"
               \/ /\ r.value.body.script = "json"
                  /\ r.value.body.activeMedia = "absent"
               \/ /\ r.value.body.script = "json"
                  /\ r.value.body.activeMedia = "object"
                  /\ r.value.body.psId = None
          ELSE \/ r.value.body.section = None /\ r.value.body.figure = None
               \/ LET el == PyOr(r.value.body.section, r.value.body.figure)
                  IN  el # None /\ el.ga = None /\ el.video = None

\* C6: whenever the media-ID lookup or the page scrape cannot produce an
\* identifier, get_program_id returns nothing and does not raise.
C6_Total ==
    /\ pc # "call"
    /\ Len(reqs) = 1
    /\ CannotProduce(reqs[1], Strategy(passed_string))
    => pc = "returned" /\ program_id = None

-----------------------------------------------------------------------------
(* nrk_vtt_to_srt *)

\* the line boundaries of str.splitlines that the texts here can hold
LineBoundary == {"\n", "\r", "\f"}

\* length of the match of '\r?\n\r?\n' that starts at position p, 0 if none
BlankLineAt(s, p) ==
    LET at(k, c) == k <= Len(s) /\ s[k] = c
        q == IF at(p, "\r") THEN p + 1 ELSE p
    IN  IF ~at(q, "\n") THEN 0
        ELSE IF at(q + 1, "\r") /\ at(q + 2, "\n") THEN q + 3 - p
        ELSE IF at(q + 1, "\n") THEN q + 2 - p
        ELSE 0

RECURSIVE ReSplitBlank(_)
\* re.split('\r?\n\r?\n', s)
ReSplitBlank(s) ==
    LET hits == {p \in 1..Len(s) : BlankLineAt(s, p) > 0}
    IN  IF hits = {} THEN <<s>>
        ELSE LET p == Min(hits)
             IN  <<SubSeq(s, 1, p - 1)>>
                 \o ReSplitBlank(SubSeq(s, p + BlankLineAt(s, p), Len(s)))

RECURSIVE SplitLines(_)
\* s.splitlines(): "\r\n" is one boundary; no empty last line
SplitLines(s) ==
    LET ends == {p \in 1..Len(s) : s[p] \in LineBoundary}
    IN  IF s = <<>> THEN <<>>
        ELSE IF ends = {} THEN <<s>>
        ELSE LET p == Min(ends)
                 skip == IF s[p] = "\r" /\ p < Len(s) /\ s[p+1] = "\n"
                         THEN 2 ELSE 1
             IN  <<SubSeq(s, 1, p - 1)>>
                 \o SplitLines(SubSeq(s, p + skip, Len(s)))

\* line.replace('.', ',')
ReplaceDots(line) ==
    [k \in 1..Len(line) |-> IF line[k] = "." THEN "," ELSE line[k]]

\* cue_lines[1] = cue_lines[1].replace('.', ',') on a cue of two lines or
\* more (Python's index 1 is the second line)
ConvertCue(cue_lines) ==
    [k \in 1..Len(cue_lines) |->
        IF k = 2 THEN ReplaceDots(cue_lines[k]) ELSE cue_lines[k]]

\* nrk_vtt_to_srt(vtt): the assignment to cue_lines[1] raises IndexError on
\* a cue of fewer than two lines
nrk_vtt_to_srt(text) ==
    LET vtt_cues == Tail(ReSplitBlank(text))
        cue_lines == [k \in 1..Len(vtt_cues) |-> SplitLines(vtt_cues[k])]
    IN  IF \E k \in 1..Len(vtt_cues) : Len(cue_lines[k]) < 2
        THEN Raise("IndexError")
        ELSE Return(Str(Join([k \in 1..Len(vtt_cues) |->
                                 Join(ConvertCue(cue_lines[k]), <<"\n">>)],
                             <<"\n", "\n">>)))

(* The converter on its own: one call on a caption text *)

MaxVttLen == 7

VttChars == {"1", ".", "\n", "\r"}

VttTexts == UNION {[1..n -> VttChars] : n \in 0..MaxVttLen}

InitConvert ==
    /\ pc = "call"
    /\ vtt \in VttTexts
    /\ srt = None
    /\ exc = "none"
    /\ reqs = <<>>
    /\ IdleMain /\ IdleResolver /\ IdleLocator

Convert ==
    /\ pc = "call"
    /\ LET r == nrk_vtt_to_srt(vtt)
       IN  IF r.kind = "return"
           THEN pc' = "returned" /\ srt' = r.value /\ exc' = exc
           ELSE pc' = "raised" /\ exc' = r.exc /\ srt' = srt
    /\ UNCHANGED <<mainVars, program_id, reqs, passed_string, vtt, manifests,
                   vtt_url>>

NextConvert == Convert

SpecConvert == InitConvert /\ [][NextConvert]_vars

\* a block with every "." of its line index 1 replaced by ",", its other
\* lines unchanged; a block without a line index 1 has nothing to replace
CueAsStated(block) ==
    LET lines == SplitLines(block)
    IN  Join([k \in 1..Len(lines) |->
                IF k = 2 THEN ReplaceDots(lines[k]) ELSE lines[k]], <<"\n">>)

\* C8: for every caption text the converter returns the blocks after the
\* first, each with the dots of its line index 1 replaced by commas and its
\* other lines unchanged, joined by one blank line; also for a text that
\* ends with a blank line or has a block of fewer than two lines.
C8_Exact ==
    pc # "call" =>
      LET blocks == Tail(ReSplitBlank(vtt))
      IN  /\ pc = "returned"
          /\ srt = Str(Join([k \in 1..Len(blocks) |-> CueAsStated(blocks[k])],
                            <<"\n", "\n">>))

-----------------------------------------------------------------------------
(* get_vtt_file_url *)

SUBTITLES_MARK ==
    <<"#","E","X","T","-","X","-","M","E","D","I","A",":",
      "T","Y","P","E","=","S","U","B","T","I","T","L","E","S">>

URI_EQ == <<"U","R","I","=","\"">>

\* positions p where 'URI="([^"]+)"' matches: the literal, one character or
\* more that is no quote, then a quote
UriStarts(line) ==
    {p \in 1..Len(line) :
        /\ HasAt(line, p, URI_EQ)
        /\ p + 5 <= Len(line)
        /\ line[p + 5] # "\""
        /\ \E q \in (p + 6)..Len(line) : line[q] = "\""}

\* re.search('URI="([^"]+)"', line): None, or group(1) of the leftmost match
UriAttr(line) ==
    IF UriStarts(line) = {} THEN None
    ELSE LET p == Min(UriStarts(line))
             q == Min({k \in (p + 6)..Len(line) : line[k] = "\""})
         IN  Str(SubSeq(line, p + 5, q - 1))

\* position after "scheme://" of an absolute URL
AfterScheme(url) == IF HasAt(url, 1, HTTPS) THEN Len(HTTPS) + 1 ELSE Len(HTTP) + 1

\* urljoin(base, rel) for an absolute http(s) base and a reference without
\* dot segments, query or fragment: an empty reference gives the base, an
\* absolute one itself, a rooted one replaces the path, any other one
\* replaces the last path segment
urljoin(base, rel) ==
    LET cut == {k \in 1..Len(base) : base[k] \in {"?", "#"}}
        bare == IF cut = {} THEN base ELSE SubSeq(base, 1, Min(cut) - 1)
        slashes == {k \in AfterScheme(bare)..Len(bare) : bare[k] = "/"}
        origin == IF slashes = {} THEN bare
                  ELSE SubSeq(bare, 1, Min(slashes) - 1)
        dir == IF slashes = {} THEN bare \o <<"/">>
               ELSE SubSeq(bare, 1, Max(slashes))
    IN  IF rel = <<>> THEN base
        ELSE IF HasScheme(rel) THEN rel
        ELSE IF rel[1] = "/" THEN origin \o rel
        ELSE dir \o rel

\* get_vtt_file_url(media_url); mainNet and subNet answer the fetches of the
\* two manifests, a response's body being the manifest text.  A loop that
\* ends without a hit leaves its variable unbound; line[0] of an empty line
\* raises IndexError; .text of a null fetch result and .group of a failed
\* search raise AttributeError.
get_vtt_file_url(media_url, mainNet, subNet) ==
    LET r1 == get_req(media_url, mainNet)
    IN  IF r1.kind = "raise" THEN [res |-> Raise(r1.exc), req |-> <<r1>>]
        ELSE IF r1.value = None
        THEN [res |-> Raise("AttributeError"), req |-> <<r1>>]
        ELSE
        LET lines == SplitLines(r1.value.body)
            hits == {k \in 1..Len(lines) : HasAt(lines[k], 1, SUBTITLES_MARK)}
        IN  IF hits = {}
            THEN [res |-> Raise("UnboundLocalError"), req |-> <<r1>>]
            ELSE
            LET sub_manifest_url == UriAttr(lines[Min(hits)])
            IN  IF sub_manifest_url = None
                THEN [res |-> Raise("AttributeError"), req |-> <<r1>>]
                ELSE
                LET r2 == get_req(sub_manifest_url.s, subNet)
                IN  IF r2.kind = "raise"
                    THEN [res |-> Raise(r2.exc), req |-> <<r1, r2>>]
                    ELSE IF r2.value = None
                    THEN [res |-> Raise("AttributeError"), req |-> <<r1, r2>>]
                    ELSE
                    LET sublines == SplitLines(r2.value.body)
                        stops == {k \in 1..Len(sublines) :
                                    sublines[k] = <<>> \/ sublines[k][1] # "#"}
                    IN  [req |-> <<r1, r2>>,
                         res |->
                           IF stops = {} THEN Raise("UnboundLocalError")
                           ELSE IF sublines[Min(stops)] = <<>>
                           THEN Raise("IndexError")
                           ELSE Return(Str(urljoin(sub_manifest_url.s,
                                                   sublines[Min(stops)])))]

(* The locator on its own: one call, the two manifests chosen beforehand *)

MaxMainLines == 2

MaxSubLines == 3

MEDIA_URL == HTTPS \o <<"h","/","m">>

SUB_URL == HTTPS \o <<"h","/","p","/","s">>

MainManifestLines ==
    {<<"#","M">>,
     <<>>,
     <<"v">>,
     SUBTITLES_MARK,
     SUBTITLES_MARK \o <<",">> \o URI_EQ \o SUB_URL \o <<"\"">>,
     SUBTITLES_MARK \o <<",">> \o URI_EQ \o <<"r","\"">>,
     <<"#","A",",">> \o URI_EQ \o HTTPS \o <<"h","/","a","\"">>}

SubManifestLines ==
    {<<"#","E">>, <<>>, <<"s",".","v">>, <<"/","x">>, HTTPS \o <<"o","/","y">>}

TextsOf(lineSet, max) ==
    {Join(ls, <<"\n">>) : ls \in UNION {[1..n -> lineSet] : n \in 0..max}}

ManifestNets(lineSet, max) ==
    {NetFail} \cup {NetOk(Response(TRUE, t)) : t \in TextsOf(lineSet, max)}

InitLocate ==
    /\ pc = "call"
    /\ manifests \in [media_url : {MEDIA_URL},
                      main : ManifestNets(MainManifestLines, MaxMainLines),
                      sub : ManifestNets(SubManifestLines, MaxSubLines)]
    /\ vtt_url = None
    /\ exc = "none"
    /\ reqs = <<>>
    /\ IdleMain /\ IdleResolver /\ IdleConverter

Locate ==
    /\ pc = "call"
    /\ LET r == get_vtt_file_url(manifests.media_url, manifests.main,
                                 manifests.sub)
       IN  /\ reqs' = r.req
           /\ IF r.res.kind = "return"
              THEN pc' = "returned" /\ vtt_url' = r.res.value /\ exc' = exc
              ELSE pc' = "raised" /\ exc' = r.res.exc /\ vtt_url' = vtt_url
    /\ UNCHANGED <<mainVars, program_id, passed_string, vtt, srt, manifests>>

NextLocate == Locate

SpecLocate == InitLocate /\ [][NextLocate]_vars

\* the lines of a served manifest
ServedLines(net) == SplitLines(net.resp.body)

\* the first line of lines that satisfies P
FirstLine(lines, P(_)) == lines[Min({k \in 1..Len(lines) : P(lines[k])})]

IsSubtitleDirective(line) == HasAt(line, 1, SUBTITLES_MARK)

NotDirective(line) == ~HasAt(line, 1, <<"#">>)

\* C9: the sub-manifest URL is the quoted URI of the first subtitle
\* directive line of the top-level manifest, the caption locator is the
\* first sub-manifest line that does not start with "#", resolved against
\* the sub-manifest URL, for every sequence of lines, an empty line before
\* the locator line included; without a subtitle directive line the call
\* fails and returns no URL.
C9_Locator ==
    pc # "call" /\ manifests.main.outcome = "ok" =>
      LET main == ServedLines(manifests.main)
      IN  IF \A k \in 1..Len(main) : ~IsSubtitleDirective(main[k])
          THEN pc = "raised"
          ELSE LET uri == UriAttr(FirstLine(main, IsSubtitleDirective))
               IN  /\ uri # None
                   /\ HasScheme(uri.s)
                   /\ manifests.sub.outcome = "ok"
                   /\ \E k \in 1..Len(ServedLines(manifests.sub)) :
                         NotDirective(ServedLines(manifests.sub)[k])
                   => /\ pc = "returned"
                      /\ Len(reqs) = 2 /\ reqs[2].url = uri.s
                      /\ vtt_url =
                           Str(urljoin(uri.s, FirstLine(ServedLines(manifests.sub),
                                                        NotDirective)))

-----------------------------------------------------------------------------
(* create_filename_base *)

\* the class [/\\?%\*:|"<>] that is replaced in a title
ForbiddenChar == {"/", "\\", "?", "%", "*", ":", "|", "\"", "<", ">"}

\* re.sub('[/\\\?%\*:|"<>]', '_', title)
Sanitize(title) ==
    [k \in 1..Len(title) |-> IF title[k] \in ForbiddenChar THEN "_" ELSE title[k]]

DigitChar(d) ==
    CASE d = 0 -> "0" [] d = 1 -> "1" [] d = 2 -> "2" [] d = 3 -> "3"
      [] d = 4 -> "4" [] d = 5 -> "5" [] d = 6 -> "6" [] d = 7 -> "7"
      [] d = 8 -> "8" [] d = 9 -> "9"

RECURSIVE Decimal(_)
\* '{}'.format(n) for n >= 0
Decimal(n) ==
    IF n < 10 THEN <<DigitChar(n)>>
    ELSE Decimal(n \div 10) \o <<DigitChar(n % 10)>>

DOT_TS == <<".", "t", "s">>

DOT_SRT == <<".", "s", "r", "t">>

\* u'{} ({}).ts'.format(basename, n)
Numbered(basename, n) == basename \o <<" ", "(">> \o Decimal(n) \o <<")">> \o DOT_TS

\* the first n >= 1 for which '{} ({}).ts' is no file; at most Cardinality(files)
\* numbers are taken
FirstFree(basename, files) ==
    Min({n \in 1..(Cardinality(files) + 1) : Numbered(basename, n) \notin files})

\* create_filename_base(title) in a directory holding files: the numbered
\* name that is returned as the base keeps its ".ts" suffix.  A title that
\* is None makes re.sub raise TypeError.
create_filename_base(title, files) ==
    IF title.kind # "str" THEN Raise("TypeError")
    ELSE LET basename == Sanitize(title.s)
         IN  IF basename \o DOT_TS \in files
             THEN Return(Str(Numbered(basename, FirstFree(basename, files))))
             ELSE Return(Str(basename))

-----------------------------------------------------------------------------
(* main, download, save_stream, save_subtitles *)

MaxBatch == 3

\* '{}'.format(v)
Format(v) == IF v.kind = "str" THEN v.s ELSE <<"N","o","n","e">>

Event(ref, what, arg) == [ref |-> ref, what |-> what, arg |-> arg]

Bool(b) == [kind |-> "bool", b |-> b]

\* a variant of ShouldDownload that downloads whatever the resolver gave
ShouldDownloadAlways(id) == TRUE

\* the test `if program_id:` of main
ShouldDownload(id) == Truthy(id)

\* hls.dump(url, path, progress) of libs/hls: produces the file path
hls_dump(url, path, files) == files \cup {path}

\* the references of a batch: a direct identifier, a media ID and a page URL
BatchReferences == {SegId, SegNum, HTTPS \o SegHost \o <<"/">> \o SegWord}

BatchResolveNets(s) ==
    IF Strategy(s) = "html"
    THEN {NetFail,
          NetOk(Response(TRUE, [section |-> Tag(Str(SegId2), None),
                                figure |-> None]))}
    ELSE {NetOk(Response(TRUE, [script |-> "json", activeMedia |-> "object",
                                psId |-> None])),
          NetOk(Response(TRUE, [script |-> "json", activeMedia |-> "object",
                                psId |-> Str(SegId2)]))}

TITLE_A == <<"a", "/", "b">>

TITLE_B == <<"a", "_", "b">>

\* what req.json() of the metadata endpoint may give: json is "invalid" (no
\* JSON), "empty" ({} or null) or "object"
Metadata(json, mediaUrl, fullTitle, title, hasSubtitles) ==
    [kind |-> "json", json |-> json, mediaUrl |-> mediaUrl,
     fullTitle |-> fullTitle, title |-> title, hasSubtitles |-> hasSubtitles]

MetadataBodies ==
    {Metadata("invalid", None, None, None, FALSE),
     Metadata("empty", None, None, None, FALSE),
     Metadata("object", None, None, Str(TITLE_B), TRUE),
     Metadata("object", Str(MEDIA_URL), Str(TITLE_A), None, TRUE),
     Metadata("object", Str(MEDIA_URL), None, Str(TITLE_B), FALSE)}

MetadataNets == {NetFail} \cup {NetOk(Response(TRUE, b)) : b \in MetadataBodies}

GOOD_MAIN == SUBTITLES_MARK \o <<",">> \o URI_EQ \o SUB_URL \o <<"\"">>

BatchMainNets == {NetFail, NetOk(Response(TRUE, GOOD_MAIN)),
                  NetOk(Response(TRUE, <<"#","M">>))}

BatchSubNets ==
    {NetOk(Response(TRUE, <<"#","E","\n","s",".","v">>)),
     NetOk(Response(TRUE, <<"#","E","\n","\n","s",".","v">>))}

BatchVttNets ==
    {NetFail,
     NetOk(Response(TRUE, <<"W","\n","\n","1","\n","0",".","1","\n","H">>)),
     NetOk(Response(TRUE, <<"W","\n","\n","1","\n","0",".","1","\n","H","\n","\n">>))}


Init ==
    /\ pc = "main"
    /\ programs \in UNION {[1..n -> BatchReferences] : n \in 1..MaxBatch}
    /\ i = 1
    /\ program_id = None
    /\ exc = "none"
    /\ reqs = <<>>
    /\ events = <<>>
    /\ fs = {}
    /\ written = <<>>
    /\ response_data = None
    /\ filename_base = <<>>
    /\ passed_string = <<>>
    /\ IdleConverter /\ IdleLocator

\* the end of one iteration of main's loop
Advance ==
    /\ i' = i + 1
    /\ pc' = IF i = Len(programs) THEN "done" ELSE "main"

\* an exception leaves main
Abort(e) == pc' = "aborted" /\ exc' = e

\* main, one iteration up to the call of download: get_program_id(program)
\* and the test of its result
MainStep ==
    /\ pc = "main"
    /\ \E net \in BatchResolveNets(programs[i]) :
         LET r == get_program_id(programs[i], net)
         IN  /\ reqs' = r.req
             /\ passed_string' = programs[i]
             /\ IF r.res.kind = "raise"
                THEN /\ Abort(r.res.exc)
                     /\ UNCHANGED <<program_id, i, events>>
                ELSE /\ program_id' = r.res.value
                     /\ exc' = exc
                     /\ IF ShouldDownload(r.res.value)
                        THEN pc' = "download" /\ UNCHANGED <<i, events>>
                        ELSE /\ events' = Append(events,
                                    Event(i, "unparseable", Str(programs[i])))
                             /\ Advance
    /\ UNCHANGED <<programs, fs, written, response_data, filename_base, vtt,
                   srt, manifests, vtt_url>>

\* download(program_id) and, for metadata with a mediaUrl, save_stream up to
\* the choice of the file names
Download ==
    /\ pc = "download"
    /\ \E net \in MetadataNets :
         LET url == TVAPI_BASE_URL \o Format(program_id)
             r == get_req(url, net)
             fetched == Append(events, Event(i, "metadata_fetch", Str(url)))
         IN  /\ reqs' = Append(reqs, r)
             /\ IF r.kind = "raise"
                THEN /\ Abort(r.exc) /\ events' = fetched
                     /\ UNCHANGED <<i, response_data, filename_base>>
                ELSE IF r.value = None \/ r.value.body.json = "invalid"
                THEN /\ Abort(IF r.value = None THEN "AttributeError"
                               ELSE "ValueError")
                     /\ events' = fetched
                     /\ UNCHANGED <<i, response_data, filename_base>>
                ELSE
                LET json_data == r.value.body
                IN  /\ response_data' = json_data
                    /\ IF json_data.json = "empty"
                       THEN /\ events' = Append(fetched,
                                    Event(i, "empty_response", None))
                            /\ Advance /\ exc' = exc
                            /\ UNCHANGED filename_base
                       ELSE IF json_data.mediaUrl = None
                       THEN /\ events' = Append(fetched,
                                    Event(i, "no_media_stream", None))
                            /\ Advance /\ exc' = exc
                            /\ UNCHANGED filename_base
                       ELSE
                       LET title == PyOr(json_data.fullTitle, json_data.title)
                           base == create_filename_base(title, fs)
                       IN  /\ events' = Append(fetched,
                                 Event(i, "save_stream",
                                       Bool(json_data.hasSubtitles)))
                           /\ i' = i
                           /\ IF base.kind = "raise"
                              THEN Abort(base.exc) /\ UNCHANGED filename_base
                              ELSE /\ filename_base' = base.value.s
                                   /\ exc' = exc
                                   /\ pc' = IF json_data.hasSubtitles
                                            THEN "save_subtitles" ELSE "dump"
    /\ UNCHANGED <<programs, program_id, fs, written, passed_string, vtt, srt,
                   manifests, vtt_url>>

\* save_subtitles(mediaUrl, filename_base + '.srt')
SaveSubtitles ==
    /\ pc = "save_subtitles"
    /\ \E mainNet \in BatchMainNets, subNet \in BatchSubNets,
          vttNet \in BatchVttNets :
         LET filename == filename_base \o DOT_SRT
             called == Append(events, Event(i, "save_subtitles", Str(filename)))
             loc == get_vtt_file_url(response_data.mediaUrl.s, mainNet, subNet)
         IN  /\ events' = called
             /\ IF loc.res.kind = "raise"
                THEN /\ Abort(loc.res.exc)
                     /\ reqs' = reqs \o loc.req
                     /\ UNCHANGED <<fs, written>>
                ELSE
                LET vtt_req == get_req(loc.res.value.s, vttNet)
                    conv == IF vtt_req.kind = "raise" THEN Raise(vtt_req.exc)
                            ELSE IF vtt_req.value = None
                            THEN Raise("AttributeError")
                            ELSE nrk_vtt_to_srt(vtt_req.value.body)
                IN  /\ reqs' = reqs \o loc.req \o <<vtt_req>>
                    /\ IF conv.kind = "raise"
                       THEN Abort(conv.exc) /\ UNCHANGED <<fs, written>>
                       ELSE /\ fs' = fs \cup {filename}
                            /\ written' = Append(written,
                                   [ref |-> i, path |-> filename])
                            /\ pc' = "dump"
                            /\ exc' = exc
    /\ UNCHANGED <<programs, i, program_id, response_data, filename_base,
                   passed_string, vtt, srt, manifests, vtt_url>>

\* the rest of save_stream: hls.dump(mediaUrl, filename_base + '.ts'), then
\* the end of download and of the iteration
Dump ==
    /\ pc = "dump"
    /\ LET filename == filename_base \o DOT_TS
       IN  /\ events' = Append(events, Event(i, "hls.dump", Str(filename)))
           /\ fs' = hls_dump(response_data.mediaUrl.s, filename, fs)
           /\ written' = Append(written, [ref |-> i, path |-> filename])
    /\ Advance
    /\ UNCHANGED <<programs, program_id, exc, reqs, response_data,
                   filename_base, passed_string, vtt, srt, manifests, vtt_url>>

Next == MainStep \/ Download \/ SaveSubtitles \/ Dump

Spec == Init /\ [][Next]_vars

\* the events of reference k, in order
EventsOf(k) == LET OfK(e) == e.ref = k IN SelectSeq(events, OfK)

\* the positions in evs of the events named what
Positions(evs, what) == {n \in 1..Len(evs) : evs[n].what = what}

\* reference k has been left: the loop is past it, or the script has ended
Left(k) == k < i \/ (pc \in {"done", "aborted"} /\ k <= i)

\* C1: a failure on one reference (a null metadata fetch, a missing manifest
\* line or a null fetch result in the subtitle step) does not end the batch
\* loop while later references remain.
C1_BatchContinues ==
    /\ pc = "aborted"
    /\ exc \in {"AttributeError", "UnboundLocalError"}
    /\ events # <<>>
    /\ events[Len(events)].ref = i
    /\ events[Len(events)].what \in {"metadata_fetch", "save_subtitles"}
    => i = Len(programs)

\* one step of the batch: the references are taken one at a time in input
\* order, what was recorded for earlier references stays, and a reference
\* for which get_program_id returned nothing is reported as unparseable and
\* left without a metadata fetch, a conversion, a download or a file written
C2_Step ==
    /\ programs' = programs
    /\ i' \in {i, i + 1}
    /\ Len(events') >= Len(events)
    /\ SubSeq(events', 1, Len(events)) = events
    /\ \A k \in (Len(events) + 1)..Len(events') : events'[k].ref = i
    /\ Len(written') >= Len(written)
    /\ SubSeq(written', 1, Len(written)) = written
    /\ fs \subseteq fs'
    /\ (pc = "main" /\ pc' # "aborted" /\ ~Truthy(program_id')) =>
          /\ events' = Append(events, Event(i, "unparseable", Str(programs[i])))
          /\ Positions(EventsOf(i), "unparseable") = {}
          /\ fs' = fs
          /\ written' = written
          /\ i' = i + 1
          /\ pc' \in {"main", "done"}
          /\ \A k \in DOMAIN reqs' : ~HasAt(reqs'[k].url, 1, TVAPI_BASE_URL)

\* C2: main processes the references one at a time in input order; a
\* reference for which get_program_id returns nothing is reported as
\* unparseable, nothing is fetched, converted, downloaded or written for it,
\* and what the references before and after it do is not touched.
C2_InOrderSkip == [][C2_Step]_vars

\* of three references the second failed resolution and the first and the
\* third were downloaded
C2_Witness ==
    /\ pc = "done"
    /\ Len(programs) = 3
    /\ Positions(EventsOf(1), "hls.dump") # {}
    /\ Len(EventsOf(2)) = 1
    /\ EventsOf(2)[1].what = "unparseable"
    /\ Positions(EventsOf(3), "hls.dump") # {}

\* C7: no two downloads write the same output path.
C7_NoOverwrite ==
    \A a, b \in DOMAIN written :
        a < b /\ written[a].ref # written[b].ref =>
            written[a].path # written[b].path

\* C10: per reference the order is metadata fetch, optional subtitle
\* conversion, media download: an empty response or one without mediaUrl is
\* reported and neither the converter nor the downloader is invoked; with a
\* mediaUrl the downloader is invoked exactly once, and the converter
\* exactly when hasSubtitles is true and before the downloader.
C10_Order ==
    \A k \in 1..Len(programs) :
        Left(k) =>
          LET evs == EventsOf(k)
              at(what) == Positions(evs, what)
          IN  /\ at("empty_response") \cup at("no_media_stream") # {} =>
                    at("save_subtitles") = {} /\ at("hls.dump") = {}
              /\ at("save_stream") # {} =>
                    /\ Cardinality(at("hls.dump")) = 1
                    /\ at("save_subtitles") # {}
                         <=> evs[Min(at("save_stream"))].arg.b
                    /\ \A a \in at("save_subtitles"), b \in at("hls.dump") : a < b
                    /\ \A a \in at("metadata_fetch"), b \in at("hls.dump") : a < b

====
